---- MODULE Spec2Model ----
(***************************************************************************)
(* msh2tikz: conversion of a triangular mesh into a standalone TikZ        *)
(* document.  The module models src/msh2tikz.py: the four formatting       *)
(* functions as operators on strings, and main / get_tex_str as a state    *)
(* machine over the command line, the file system, the terminal and the    *)
(* output file handle.                                                     *)
(*                                                                         *)
(* Strings are TLA+ strings (Len, SubSeq and \o act on them as on          *)
(* sequences of characters).  A numpy array is a record                    *)
(* [dtype, rows]: dtype "int" holds integers, dtype "float" holds          *)
(* float64 values written in tenths (10 stands for 1.0, 5 for 0.5).        *)
(***************************************************************************)
EXTENDS Integers, Sequences, FiniteSets

VARIABLES
    mode,           \* "script": run through main; "library": imported, get_tex_str called
    args,           \* the parsed command line (argparse namespace)
    fs,             \* the file system: path -> file
    stdout,         \* everything printed so far
    pc,             \* position in main / get_tex_str
    filename,       \* main's local
    out_file,       \* main's local, then get_tex_str's parameter out
    points,         \* get_tex_str's parameter
    cells,          \* get_tex_str's parameter (never read by it)
    cell_dofmap,    \* get_tex_str's parameter
    print_flag,     \* get_tex_str's parameter print_to_terminal
    write_lines,    \* get_tex_str's local
    texfile,        \* the output file handle: "none", "open" or "closed"
    fault,          \* the uncaught exception that ended the run, or "none"
    log,            \* the steps entered and left so far, in order
    ncalls,         \* library mode: calls of get_tex_str made so far
    ref,            \* per mesh tag: the document the first completed call left on disk
    last,           \* the latest completed call: its mesh tag and the document on disk
    before,         \* the file system when the run started
    inputs,         \* library mode: the meshes the caller holds, by tag
    cur             \* library mode: the tag of the mesh of the call in progress

vars == <<mode, args, fs, stdout, pc, filename, out_file, points, cells,
          cell_dofmap, print_flag, write_lines, texfile, fault, log,
          ncalls, ref, last, before, inputs, cur>>

---------------------------------------------------------------------------
(* Bounds of the model *)

\* Largest number of points of a grid mesh
MaxPoints == 3
\* Largest number of triangles of an enumerated triangle array
MaxTri == 2
\* Largest number of calls of get_tex_str in library mode
MaxCalls == 2

---------------------------------------------------------------------------
(* Python values *)

\* Optional[str]: None, or a string
None == <<>>
Some(s) == <<s>>

\* Python truthiness of an Optional[str]: None and "" are falsy
Truthy(opt) == opt # None /\ opt[1] # ""

\* s[:-1]
DropLast(s) == SubSeq(s, 1, Len(s) - 1)

Digit == <<"0", "1", "2", "3", "4", "5", "6", "7", "8", "9">>

\* str() of a non-negative int that keeps the last digit only
FormatNatLastDigit(n) == Digit[(n % 10) + 1]

\* str() of a non-negative int
RECURSIVE FormatNat(_)
FormatNat(n) == IF n < 10 THEN Digit[n + 1]
                ELSE FormatNat(n \div 10) \o Digit[(n % 10) + 1]

\* str() of an int
FormatInt(n) == IF n < 0 THEN "-" \o FormatNat(-n) ELSE FormatNat(n)

\* A float64 printed like an int when it has no fractional part ("0", "1")
FormatFloatShort(t) ==
    IF t % 10 = 0 THEN FormatInt(t \div 10)
    ELSE FormatInt(t \div 10) \o "." \o FormatNat(t % 10)

\* str() of a float64 given in tenths: shortest round-trip repr, always
\* with a fractional part ("0.0", "0.5", "1.0")
FormatFloat(t) ==
    LET a == IF t < 0 THEN -t ELSE t
    IN  (IF t < 0 THEN "-" ELSE "") \o FormatNat(a \div 10) \o "." \o FormatNat(a % 10)

\* f"{x}" of a numpy scalar of the given dtype
FormatScalar(dtype, v) == IF dtype = "float" THEN FormatFloat(v) ELSE FormatInt(v)

\* np.arange(n, dtype=int)
Arange(n) == [dtype |-> "int", rows |-> [i \in 1..n |-> i - 1]]

---------------------------------------------------------------------------
(* The formatting functions *)

\* One iteration's text of get_coordinate_definition
CoordLine(idx, point, dtype) ==
    "\\coordinate (P" \o FormatInt(idx) \o ") at ("
        \o FormatScalar(dtype, point[1]) \o "," \o FormatScalar(dtype, point[2]) \o ");\n"

\* out_str after the first k iterations of get_coordinate_definition's loop
RECURSIVE CoordLoop(_, _)
CoordLoop(pts, k) ==
    IF k = 0 THEN ""
    ELSE CoordLoop(pts, k - 1) \o CoordLine(k - 1, pts.rows[k], pts.dtype)

\* get_coordinate_definition without the trimming of line 81
CoordDefinitionUntrimmed(pts) == CoordLoop(pts, Len(pts.rows))

get_coordinate_definition(pts) == DropLast(CoordLoop(pts, Len(pts.rows)))

\* out_str after the first k iterations of get_all_coordinates's loop
RECURSIVE AllLoop(_, _)
AllLoop(pts, k) ==
    IF k = 0 THEN ""
    ELSE AllLoop(pts, k - 1) \o "P" \o FormatInt(k - 1) \o ","

get_all_coordinates(pts) == DropLast(AllLoop(pts, Len(pts.rows)))

\* A token with its vertex indices in ascending order
TriTokenSorted(cell, dtype) ==
    LET lo == CHOOSE a \in {cell[1], cell[2], cell[3]} :
                  \A b \in {cell[1], cell[2], cell[3]} : a <= b
        hi == CHOOSE a \in {cell[1], cell[2], cell[3]} :
                  \A b \in {cell[1], cell[2], cell[3]} : a >= b
        mid == cell[1] + cell[2] + cell[3] - lo - hi
    IN  "P" \o FormatScalar(dtype, lo) \o "/P" \o FormatScalar(dtype, mid)
            \o "/P" \o FormatScalar(dtype, hi) \o ","

\* One iteration's text of get_triangle_definition
TriToken(cell, dtype) ==
    "P" \o FormatScalar(dtype, cell[1]) \o "/P" \o FormatScalar(dtype, cell[2])
        \o "/P" \o FormatScalar(dtype, cell[3]) \o ","

\* out_str after the first k iterations of get_triangle_definition's loop
RECURSIVE TriLoop(_, _)
TriLoop(dm, k) ==
    IF k = 0 THEN ""
    ELSE TriLoop(dm, k - 1) \o TriToken(dm.rows[k], dm.dtype)

\* get_triangle_definition with a degenerate token standing in for an empty list
TriDefinitionPlaceholder(dm) ==
    IF Len(dm.rows) = 0 THEN "P0/P0/P0" ELSE DropLast(TriLoop(dm, Len(dm.rows)))

get_triangle_definition(dm) == DropLast(TriLoop(dm, Len(dm.rows)))

\* The entries of write_lines that hold the coordinate block, the triangle
\* list and the list of all names
CoordEntry == 7
ListEntry == 9
AllEntry == 13

\* write_lines of get_tex_str
TexLines(pts, dm) ==
    << "\\documentclass[tikz]{standalone}\n",
       "\\usepackage{tikz}\n",
       "\\usetikzlibrary{calc}\n",
       "\\begin{document}\n",
       "\\begin{tikzpicture}[scale=1.0]\n",
       "% --- Define all coordinates manually ---\n",
       get_coordinate_definition(pts) \o "\n",
       "\\foreach \\a/\\b/\\c in {\n",
       get_triangle_definition(dm) \o "}{\n",
       "\\draw[thin,opacity=0.5] (\\a) -- (\\b) -- (\\c) -- cycle;}\n",
       "\n",
       "% Label nodes (only for creation process)\n",
       "% \\foreach \\a in " \o get_all_coordinates(pts) \o "}{\n",
       "%     \\node[blue!80!black, font=\\tiny] at (\\a) {\\a};\n",
       "% }\n",
       "\\end{tikzpicture}\n",
       "\\end{document}\n" >>

\* The concatenation of the first k strings of a list
RECURSIVE Concat(_, _)
Concat(lines, k) == IF k = 0 THEN "" ELSE Concat(lines, k - 1) \o lines[k]

---------------------------------------------------------------------------
(* Arrays and meshes the model draws its inputs from *)

Dtypes == {"int", "float"}

\* One unit of length in an array of the given dtype (floats are in tenths)
Unit(dtype) == IF dtype = "float" THEN 10 ELSE 1

\* Point i of a two-column grid; a float grid has spacing 0.5
GridRow(dtype, i) ==
    IF dtype = "float" THEN <<5 * (i % 2), 5 * (i \div 2)>> ELSE <<i % 2, i \div 2>>

GridPoints(dtype, n) == [dtype |-> dtype, rows |-> [i \in 1..n |-> GridRow(dtype, i - 1)]]

\* The unit square (0,0), (1,0), (1,1), (0,1)
SquarePoints(dtype) ==
    LET u == Unit(dtype)
    IN  [dtype |-> dtype, rows |-> <<<<0, 0>>, <<u, 0>>, <<u, u>>, <<0, u>>>>]

SquareTriangles == [dtype |-> "int", rows |-> <<<<0, 1, 2>>, <<0, 2, 3>>>>]

\* The number of points of the mesh with two-digit point indices
WideLen == 12

WidePoints == GridPoints("float", WideLen)

WideTriangles == [dtype |-> "int", rows |-> <<<<1, 10, 11>>, <<11, 1, 0>>>>]

EmptyPoints == GridPoints("float", 0)

EmptyTriangles == [dtype |-> "int", rows |-> <<>>]

TriPool == << <<0, 1, 2>>, <<0, 2, 3>>, <<2, 0, 1>>, <<3, 1, 0>> >>

\* m triangles taken from the pool, starting at offset s
PoolTriangles(s, m) ==
    [dtype |-> "int",
     rows |-> [k \in 1..m |-> TriPool[((s + k - 1) % Len(TriPool)) + 1]]]

PointArrays ==
    {GridPoints(d, n) : d \in Dtypes, n \in 0..MaxPoints}
        \cup {SquarePoints(d) : d \in Dtypes} \cup {WidePoints}

TriArrays ==
    {PoolTriangles(s, m) : s \in 0..(Len(TriPool) - 1), m \in 0..MaxTri}
        \cup {SquareTriangles, WideTriangles}

\* A mesh as get_tex_str receives it
Mesh(pts, dm) == [points |-> pts, cell_dofmap |-> dm]

Meshes == {Mesh(p, t) : p \in PointArrays, t \in TriArrays}

\* Every index of every triangle is a valid index into the point sequence
ValidMesh(m) ==
    \A k \in 1..Len(m.cell_dofmap.rows) : \A j \in 1..3 :
        m.cell_dofmap.rows[k][j] \in 0..(Len(m.points.rows) - 1)

---------------------------------------------------------------------------
(* Files *)

NoCells == [t \in {} |-> EmptyTriangles]

NoMeshData == [points |-> EmptyPoints, cells_dict |-> NoCells]

Absent == [kind |-> "absent", text |-> "", mesh |-> NoMeshData]

TextFile(s) == [kind |-> "text", text |-> s, mesh |-> NoMeshData]

\* A .msh file as meshio reads it: float64 points with three coordinates,
\* and the cell blocks by type
MeshData(m, types) ==
    [points |-> [dtype |-> "float",
                 rows |-> [i \in 1..Len(m.points.rows) |->
                              m.points.rows[i] \o <<0>>]],
     cells_dict |-> [t \in types |->
                        IF t = "triangle" THEN m.cell_dofmap
                        ELSE [dtype |-> "int", rows |-> <<<<0, 1>>>>]]]

MeshFile(m, types) == [kind |-> "mesh", text |-> "", mesh |-> MeshData(m, types)]

OldText == "old\n"

\* Meshes a .msh file can hold: float points, at least one triangle, valid indices
FileMeshes ==
    {m \in {Mesh(p, t) : p \in {GridPoints("float", MaxPoints), SquarePoints("float"),
                                WidePoints},
                         t \in TriArrays} :
        Len(m.cell_dofmap.rows) > 0 /\ ValidMesh(m)}

\* What may lie at the path of the user's mesh file
UserFiles ==
    {Absent, TextFile(OldText), MeshFile(Mesh(SquarePoints("float"), EmptyTriangles), {"line"})}
        \cup {MeshFile(m, {"triangle"}) : m \in FileMeshes}

\* What the meshing engine may write
GeneratedFiles ==
    {MeshFile(Mesh(WidePoints, WideTriangles), {"line", "triangle"}),
     MeshFile(Mesh(SquarePoints("float"), SquareTriangles), {"line", "triangle"})}

UserMeshPath == "m.msh"

Paths == {UserMeshPath, "example_mesh.msh", "m.tex", "example_mesh.tex", "o.tex"}

FilenameArgs == {None, Some(""), Some("m")}

OutArgs == {None, Some(""), Some("o.tex"), Some("m.msh"), Some("example_mesh.msh")}

LibraryOut == "o.tex"

Tags == {"A", "B"}

---------------------------------------------------------------------------
(* Initial states *)

NoArgs == [filename |-> None, out |-> None, print |-> FALSE]

NoLast == [tag |-> "", doc |-> ""]

NoRef == [t \in {} |-> ""]

NoInputs == [t \in Tags |-> Mesh(EmptyPoints, EmptyTriangles)]

Locals ==
    /\ stdout = ""
    /\ filename = ""
    /\ out_file = ""
    /\ points = EmptyPoints
    /\ cells = Arange(0)
    /\ cell_dofmap = EmptyTriangles
    /\ print_flag = FALSE
    /\ write_lines = <<>>
    /\ texfile = "none"
    /\ fault = "none"
    /\ log = <<>>
    /\ ncalls = 0
    /\ ref = NoRef
    /\ last = NoLast
    /\ cur = ""

\* python msh2tikz.py [filename] [--out OUT] [--print]: parse_args has returned
InitScript ==
    /\ mode = "script"
    /\ pc = "main"
    /\ args \in [filename : FilenameArgs, out : OutArgs, print : BOOLEAN]
    /\ \E user \in UserFiles, stale \in BOOLEAN :
          fs = [p \in Paths |-> IF p = UserMeshPath THEN user
                                ELSE IF stale THEN TextFile(OldText) ELSE Absent]
    /\ before = fs
    /\ inputs = NoInputs
    /\ Locals

\* import msh2tikz: the __main__ guard keeps main from running, and the
\* importing program calls get_tex_str on arrays of its own
InitLibrary ==
    /\ mode = "library"
    /\ pc = "idle"
    /\ args = NoArgs
    /\ fs = [p \in Paths |-> Absent]
    /\ before = fs
    /\ \E a \in Meshes :
          inputs = [t \in Tags |-> IF t = "A" THEN a
                                   ELSE Mesh(SquarePoints("float"), SquareTriangles)]
    /\ Locals

---------------------------------------------------------------------------
(* main *)

\* The exception e is caught and main goes on to its last line
RaiseCaught(e) == fault' = e /\ pc' = "confirm"

\* The uncaught exception e ends the run
Raise(e) == fault' = e /\ pc' = "crashed"

\* main without the test of line 128: the example mesh is always generated
ChooseFilenameAlwaysGenerates ==
    /\ pc = "main"
    /\ filename' = "example_mesh"
    /\ stdout' = stdout \o "No filename provided. Generating example mesh...\n"
    /\ pc' = "generate"
    /\ UNCHANGED <<mode, args, fs, out_file, points, cells, cell_dofmap, print_flag,
                   write_lines, texfile, fault, log, ncalls, ref, last, before,
                   inputs, cur>>

\* main, lines 128-132
ChooseFilename ==
    /\ pc = "main"
    /\ IF Truthy(args.filename)
       THEN /\ filename' = args.filename[1]
            /\ stdout' = stdout
            /\ pc' = "resolve_out"
       ELSE /\ filename' = "example_mesh"
            /\ stdout' = stdout \o "No filename provided. Generating example mesh...\n"
            /\ pc' = "generate"
    /\ UNCHANGED <<mode, args, fs, out_file, points, cells, cell_dofmap, print_flag,
                   write_lines, texfile, fault, log, ncalls, ref, last, before,
                   inputs, cur>>

\* generate_rectangle_mesh(h=0.75, filename=filename) returns: the engine has
\* written <filename>.msh
GenerateMesh ==
    /\ pc = "generate"
    /\ \E f \in GeneratedFiles : fs' = [fs EXCEPT ![filename \o ".msh"] = f]
    /\ stdout' = stdout \o "Mesh " \o filename \o ".msh" \o " generated and saved to file\n"
    /\ log' = log \o <<"generate>", "generate<">>
    /\ pc' = "resolve_out"
    /\ UNCHANGED <<mode, args, filename, out_file, points, cells, cell_dofmap,
                   print_flag, write_lines, texfile, fault, ncalls, ref, last,
                   before, inputs, cur>>

\* generate_rectangle_mesh raises: in the engine before gmsh.write (line 52),
\* or after it (gmsh.finalize, the print of line 54)
GenerateMeshFails ==
    /\ pc = "generate"
    /\ \/ fs' = fs
       \/ \E f \in GeneratedFiles : fs' = [fs EXCEPT ![filename \o ".msh"] = f]
    /\ log' = log \o <<"generate>">>
    /\ Raise("gmsh")
    /\ UNCHANGED <<mode, args, stdout, filename, out_file, points, cells, cell_dofmap,
                   print_flag, write_lines, texfile, ncalls, ref, last, before,
                   inputs, cur>>

\* main, line 135
ResolveOut ==
    /\ pc = "resolve_out"
    /\ out_file' = IF Truthy(args.out) THEN args.out[1] ELSE filename \o ".tex"
    /\ pc' = "read_mesh"
    /\ UNCHANGED <<mode, args, fs, stdout, filename, points, cells, cell_dofmap,
                   print_flag, write_lines, texfile, fault, log, ncalls, ref, last,
                   before, inputs, cur>>

\* The exception read_mesh(name) raises on file f, or "none"
ReadFault(f) ==
    IF f.kind = "absent" THEN "FileNotFoundError"
    ELSE IF f.kind # "mesh" THEN "ReadError"
    ELSE IF "triangle" \notin DOMAIN f.mesh.cells_dict THEN "KeyError"
    ELSE "none"

\* points_3d[:, :dim]
Truncate(pts, dim) ==
    [dtype |-> pts.dtype, rows |-> [i \in 1..Len(pts.rows) |-> SubSeq(pts.rows[i], 1, dim)]]

\* What read_mesh(name, dim) returns on the mesh data of a file
read_mesh(data, dim) ==
    [points |-> Truncate(data.points, dim),
     cells |-> Arange(Len(data.cells_dict["triangle"].rows)),
     cell_dofmap |-> data.cells_dict["triangle"]]

\* main, line 137, read_mesh returns; get_tex_str is called with its result (line 138)
ReadMesh ==
    /\ pc = "read_mesh"
    /\ ReadFault(fs[filename \o ".msh"]) = "none"
    /\ LET r == read_mesh(fs[filename \o ".msh"].mesh, 2)
       IN  /\ points' = r.points
           /\ cells' = r.cells
           /\ cell_dofmap' = r.cell_dofmap
    /\ print_flag' = args.print
    /\ log' = log \o <<"read_mesh>", "read_mesh<">>
    /\ pc' = "get_tex_str"
    /\ UNCHANGED <<mode, args, fs, stdout, filename, out_file, write_lines, texfile,
                   fault, ncalls, ref, last, before, inputs, cur>>

\* main with the output opened before the mesh is read: a failing read_mesh
\* leaves the output file created or truncated
ReadMeshFailsAfterOpen ==
    /\ pc = "read_mesh"
    /\ ReadFault(fs[filename \o ".msh"]) # "none"
    /\ fs' = [fs EXCEPT ![out_file] = TextFile("")]
    /\ log' = log \o <<"read_mesh>">>
    /\ Raise(ReadFault(fs[filename \o ".msh"]))
    /\ UNCHANGED <<mode, args, stdout, filename, out_file, points, cells,
                   cell_dofmap, print_flag, write_lines, texfile, ncalls, ref, last,
                   before, inputs, cur>>

\* main, line 137, read_mesh raises
ReadMeshFails ==
    /\ pc = "read_mesh"
    /\ ReadFault(fs[filename \o ".msh"]) # "none"
    /\ log' = log \o <<"read_mesh>">>
    /\ Raise(ReadFault(fs[filename \o ".msh"]))
    /\ UNCHANGED <<mode, args, fs, stdout, filename, out_file, points, cells,
                   cell_dofmap, print_flag, write_lines, texfile, ncalls, ref, last,
                   before, inputs, cur>>

\* main, line 140
Confirm ==
    /\ pc = "confirm"
    /\ stdout' = stdout \o "TeX file written to " \o out_file \o "\n"
    /\ log' = log \o <<"confirm">>
    /\ pc' = "done"
    /\ UNCHANGED <<mode, args, fs, filename, out_file, points, cells, cell_dofmap,
                   print_flag, write_lines, texfile, fault, ncalls, ref, last, before,
                   inputs, cur>>

---------------------------------------------------------------------------
(* get_tex_str *)

\* The program calls get_tex_str(points, cells, cell_dofmap, out, print_to_terminal)
\* on one of the meshes it holds
CallGetTexStr ==
    /\ mode = "library"
    /\ pc = "idle"
    /\ ncalls < MaxCalls
    /\ \E t \in Tags, extra \in 0..1, p \in BOOLEAN :
          /\ cur' = t
          /\ points' = inputs[t].points
          /\ cell_dofmap' = inputs[t].cell_dofmap
          /\ cells' = Arange(Len(inputs[t].cell_dofmap.rows) + extra)
          /\ print_flag' = p
    /\ out_file' = LibraryOut
    /\ write_lines' = <<>>
    /\ texfile' = "none"
    /\ pc' = "get_tex_str"
    /\ UNCHANGED <<mode, args, fs, stdout, filename, fault, log, ncalls, ref, last,
                   before, inputs>>

\* get_tex_str, lines 99-117
BuildLines ==
    /\ pc = "get_tex_str"
    /\ write_lines' = TexLines(points, cell_dofmap)
    /\ log' = log \o <<"get_tex_str>">>
    /\ pc' = "open"
    /\ UNCHANGED <<mode, args, fs, stdout, filename, out_file, points, cells,
                   cell_dofmap, print_flag, texfile, fault, ncalls, ref, last, before,
                   inputs, cur>>

\* The file open(out, 'a') would leave: an existing text is kept
OpenedForAppending(f) == IF f.kind = "text" THEN f ELSE TextFile("")

\* The file open(out, 'w') leaves at the path of file f: created, or truncated
OpenedForWriting(f) == TextFile("")

\* get_tex_str, line 118: open succeeds
OpenOut ==
    /\ pc = "open"
    /\ fs' = [fs EXCEPT ![out_file] = OpenedForWriting(fs[out_file])]
    /\ texfile' = "open"
    /\ log' = log \o <<"open">>
    /\ pc' = IF print_flag THEN "echo" ELSE "write"
    /\ UNCHANGED <<mode, args, stdout, filename, out_file, points, cells, cell_dofmap,
                   print_flag, write_lines, fault, ncalls, ref, last, before, inputs,
                   cur>>

\* get_tex_str, line 118: open raises (no permission, no such directory)
OpenOutFails ==
    /\ pc = "open"
    /\ Raise("OSError")
    /\ UNCHANGED <<mode, args, fs, stdout, filename, out_file, points, cells,
                   cell_dofmap, print_flag, write_lines, texfile, log, ncalls, ref,
                   last, before, inputs, cur>>

\* The handle after a block that is no with statement: left as it is
ExitWithout(h) == h

\* The handle after the with statement's block is left, normally or by an exception
ExitWith(h) == "closed"

\* get_tex_str, lines 119-121
Echo ==
    /\ pc = "echo"
    /\ stdout' = stdout \o Concat(write_lines, Len(write_lines))
    /\ pc' = "write"
    /\ UNCHANGED <<mode, args, fs, filename, out_file, points, cells, cell_dofmap,
                   print_flag, write_lines, texfile, fault, log, ncalls, ref, last,
                   before, inputs, cur>>

\* get_tex_str, lines 119-121: a print raises after k lines (terminal closed)
EchoFails ==
    /\ pc = "echo"
    /\ \E k \in {0, 1} : stdout' = stdout \o Concat(write_lines, k)
    /\ texfile' = ExitWith(texfile)
    /\ Raise("BrokenPipeError")
    /\ UNCHANGED <<mode, args, fs, filename, out_file, points, cells, cell_dofmap,
                   print_flag, write_lines, log, ncalls, ref, last, before, inputs,
                   cur>>

\* The file after data was written through the handle
Written(f, data) == TextFile(f.text \o data)

\* get_tex_str, line 122
WriteLines ==
    /\ pc = "write"
    /\ fs' = [fs EXCEPT ![out_file] =
                 Written(fs[out_file], Concat(write_lines, Len(write_lines)))]
    /\ pc' = "close"
    /\ UNCHANGED <<mode, args, stdout, filename, out_file, points, cells, cell_dofmap,
                   print_flag, write_lines, texfile, fault, log, ncalls, ref, last,
                   before, inputs, cur>>

\* get_tex_str, line 122: the write raises (disk full) with k lines on disk
WriteLinesFails ==
    /\ pc = "write"
    /\ \E k \in {0, 1, Len(write_lines) - 1} :
          fs' = [fs EXCEPT ![out_file] = Written(fs[out_file], Concat(write_lines, k))]
    /\ texfile' = ExitWith(texfile)
    /\ Raise("OSError")
    /\ UNCHANGED <<mode, args, stdout, filename, out_file, points, cells, cell_dofmap,
                   print_flag, write_lines, log, ncalls, ref, last, before, inputs,
                   cur>>

\* ref with the document of the first completed call on mesh t
Recorded(r, t, doc) ==
    IF t \in DOMAIN r THEN r
    ELSE [u \in DOMAIN r \cup {t} |-> IF u = t THEN doc ELSE r[u]]

\* get_tex_str: the with block ends and the call returns; in library mode the
\* call's parameters and locals are gone and the caller goes on
Return ==
    /\ pc = "close"
    /\ texfile' = ExitWith(texfile)
    /\ log' = log \o <<"get_tex_str<">>
    /\ IF mode = "script"
       THEN /\ pc' = "confirm"
            /\ UNCHANGED <<ncalls, ref, last, points, cells, cell_dofmap, print_flag,
                           write_lines, cur>>
       ELSE /\ pc' = "idle"
            /\ ncalls' = ncalls + 1
            /\ ref' = Recorded(ref, cur, fs[out_file].text)
            /\ last' = [tag |-> cur, doc |-> fs[out_file].text]
            /\ points' = EmptyPoints
            /\ cells' = Arange(0)
            /\ cell_dofmap' = EmptyTriangles
            /\ print_flag' = FALSE
            /\ write_lines' = <<>>
            /\ cur' = ""
    /\ UNCHANGED <<mode, args, fs, stdout, filename, out_file, fault, before, inputs>>

---------------------------------------------------------------------------

\* A run of the script: python msh2tikz.py ...
Next ==
    \/ ChooseFilename
    \/ GenerateMesh
    \/ GenerateMeshFails
    \/ ResolveOut
    \/ ReadMesh
    \/ ReadMeshFails
    \/ BuildLines
    \/ OpenOut
    \/ OpenOutFails
    \/ Echo
    \/ EchoFails
    \/ WriteLines
    \/ WriteLinesFails
    \/ Return
    \/ Confirm

Spec == InitScript /\ [][Next]_vars

\* A program that imports the module and calls get_tex_str
NextLibrary ==
    \/ CallGetTexStr
    \/ BuildLines
    \/ OpenOut
    \/ OpenOutFails
    \/ Echo
    \/ EchoFails
    \/ WriteLines
    \/ WriteLinesFails
    \/ Return

SpecLibrary == InitLibrary /\ [][NextLibrary]_vars

---------------------------------------------------------------------------
(* Reading strings back: what a consumer of the document sees *)

\* The positions of character c in s
Positions(s, c) == {i \in 1..Len(s) : SubSeq(s, i, i) = c}

\* The positions of set ps in increasing order
RECURSIVE Sorted(_)
Sorted(ps) ==
    IF ps = {} THEN <<>>
    ELSE LET m == CHOOSE q \in ps : \A r \in ps : q <= r
         IN  <<m>> \o Sorted(ps \ {m})

\* s.split(c), except that the empty string has no pieces
Split(s, c) ==
    IF s = "" THEN <<>>
    ELSE LET cuts == <<0>> \o Sorted(Positions(s, c)) \o <<Len(s) + 1>>
         IN  [k \in 1..(Len(cuts) - 1) |-> SubSeq(s, cuts[k] + 1, cuts[k + 1] - 1)]

\* The position of the first c in s, Len(s) + 1 when there is none
First(s, c) ==
    IF Positions(s, c) = {} THEN Len(s) + 1
    ELSE CHOOSE q \in Positions(s, c) : \A r \in Positions(s, c) : q <= r

StartsWith(s, pre) == Len(s) >= Len(pre) /\ SubSeq(s, 1, Len(pre)) = pre

EndsWith(s, suf) == Len(s) >= Len(suf) /\ SubSeq(s, Len(s) - Len(suf) + 1, Len(s)) = suf

\* Whether t occurs in s
Contains(s, t) == \E i \in 1..(Len(s) - Len(t) + 1) : SubSeq(s, i, i + Len(t) - 1) = t

DigitValue(ch) == CHOOSE d \in 0..9 : Digit[d + 1] = ch

IsDigits(s) == s # "" /\ \A i \in 1..Len(s) : \E d \in 0..9 : Digit[d + 1] = SubSeq(s, i, i)

\* The number a string of decimal digits denotes
RECURSIVE ParseNat(_)
ParseNat(s) ==
    IF s = "" THEN 0
    ELSE 10 * ParseNat(DropLast(s)) + DigitValue(SubSeq(s, Len(s), Len(s)))

DeclPrefix == "\\coordinate ("

\* A declaration line \coordinate (NAME) at (X,Y);
IsDecl(line) == StartsWith(line, DeclPrefix) /\ Contains(line, ") at (") /\ EndsWith(line, ");")

\* The name a declaration line declares
DeclName(line) == SubSeq(line, Len(DeclPrefix) + 1, First(line, ")") - 1)

\* The index a point name P<digits> stands for, -1 for any other text
NameIndex(nm) ==
    IF StartsWith(nm, "P") /\ IsDigits(SubSeq(nm, 2, Len(nm)))
    THEN ParseNat(SubSeq(nm, 2, Len(nm)))
    ELSE -1

\* get_tex_str has just formatted the arrays it was called with
Formatted == pc = "open"

CoordBlock == get_coordinate_definition(points)

TriList == get_triangle_definition(cell_dofmap)

NPoints == Len(points.rows)

NTriangles == Len(cell_dofmap.rows)

---------------------------------------------------------------------------
(* C1 *)

\* C1: for a mesh with N points and M triangles the coordinate block that
\* get_coordinate_definition returns has exactly N lines, each a declaration,
\* and the list that get_triangle_definition returns has exactly M
\* comma-separated tokens
C1_Counts ==
    Formatted =>
        LET decls == Split(CoordBlock, "\n")
            tokens == Split(TriList, ",")
        IN  /\ Len(decls) = NPoints
            /\ \A k \in 1..Len(decls) : IsDecl(decls[k])
            /\ Len(tokens) = NTriangles
            /\ \A k \in 1..Len(tokens) : tokens[k] # ""

C1_Witness == Formatted /\ NPoints = WideLen /\ NTriangles = 2

---------------------------------------------------------------------------
(* C2 *)

\* The coordinate block and the triangle list as they stand in the document
DocCoordBlock == DropLast(write_lines[CoordEntry])

DocTriList == SubSeq(write_lines[ListEntry], 1, Len(write_lines[ListEntry]) - Len("}{\n"))

\* C2: when every triangle index is a valid point index, each point name in
\* the document's triangle list is declared exactly once in the document's
\* coordinate block, the declared names are pairwise distinct, and the i-th
\* declaration (from 0) declares P<i>
C2_NoDangling ==
    (Formatted /\ ValidMesh(Mesh(points, cell_dofmap))) =>
        LET decls == Split(DocCoordBlock, "\n")
            names == [k \in 1..Len(decls) |-> DeclName(decls[k])]
            tokens == Split(DocTriList, ",")
        IN  /\ \A k \in 1..Len(tokens) :
                  \A j \in 1..Len(Split(tokens[k], "/")) :
                      Cardinality({i \in 1..Len(decls) :
                                      names[i] = Split(tokens[k], "/")[j]}) = 1
            /\ \A i, j \in 1..Len(decls) : i # j => names[i] # names[j]
            /\ \A i \in 1..Len(decls) : NameIndex(names[i]) = i - 1

C2_Witness ==
    /\ Formatted
    /\ ValidMesh(Mesh(points, cell_dofmap))
    /\ NPoints = WideLen
    /\ cell_dofmap = WideTriangles

---------------------------------------------------------------------------
(* C3 *)

\* C3: the k-th token of the list get_triangle_definition returns names the
\* three vertices of the k-th input triangle, in the triangle's own order
C3_TokenOrder ==
    Formatted =>
        LET tokens == Split(TriList, ",")
        IN  /\ Len(tokens) = NTriangles
            /\ \A k \in 1..Len(tokens) :
                  LET parts == Split(tokens[k], "/")
                  IN  /\ Len(parts) = 3
                      /\ \A j \in 1..3 : NameIndex(parts[j]) = cell_dofmap.rows[k][j]

C3_Witness ==
    /\ Formatted
    /\ NTriangles = 2
    /\ cell_dofmap.rows[1] = <<2, 0, 1>>
    /\ cell_dofmap.rows[2] = <<3, 1, 0>>

---------------------------------------------------------------------------
(* C4 *)

IsSquareMesh ==
    /\ points.rows = <<<<0, 0>>, <<Unit(points.dtype), 0>>,
                       <<Unit(points.dtype), Unit(points.dtype)>>,
                       <<0, Unit(points.dtype)>>>>
    /\ cell_dofmap = SquareTriangles

\* C4 as claimed: for the unit-square mesh the coordinate block has four
\* lines, the first \coordinate (P0) at (0,0); and the last
\* \coordinate (P3) at (0,1); with no trailing newline, and the triangle list
\* is P0/P1/P2,P0/P2/P3
C4_AsClaimed ==
    (Formatted /\ IsSquareMesh) =>
        LET decls == Split(CoordBlock, "\n")
        IN  /\ Len(decls) = 4
            /\ decls[1] = "\\coordinate (P0) at (0,0);"
            /\ decls[4] = "\\coordinate (P3) at (0,1);"
            /\ TriList = "P0/P1/P2,P0/P2/P3"

\* C4 amended: the block is as claimed for an integer point array; for a
\* float64 point array, which is what read_mesh returns, every coordinate is
\* printed with its fractional part: first line \coordinate (P0) at (0.0,0.0);
\* and last line \coordinate (P3) at (0.0,1.0);
C4_Scenario ==
    (Formatted /\ IsSquareMesh) =>
        /\ points.dtype = "int" =>
              CoordBlock = "\\coordinate (P0) at (0,0);\n\\coordinate (P1) at (1,0);\n"
                           \o "\\coordinate (P2) at (1,1);\n\\coordinate (P3) at (0,1);"
        /\ points.dtype = "float" =>
              CoordBlock = "\\coordinate (P0) at (0.0,0.0);\n\\coordinate (P1) at (1.0,0.0);\n"
                           \o "\\coordinate (P2) at (1.0,1.0);\n\\coordinate (P3) at (0.0,1.0);"
        /\ TriList = "P0/P1/P2,P0/P2/P3"

C4_Witness == Formatted /\ IsSquareMesh /\ points.dtype = "float"

---------------------------------------------------------------------------
(* C5 *)

IsEmptyMesh == NPoints = 0 /\ NTriangles = 0

\* The document of the empty mesh
EmptyShell ==
    << "\\documentclass[tikz]{standalone}\n",
       "\\usepackage{tikz}\n",
       "\\usetikzlibrary{calc}\n",
       "\\begin{document}\n",
       "\\begin{tikzpicture}[scale=1.0]\n",
       "% --- Define all coordinates manually ---\n",
       "\n",
       "\\foreach \\a/\\b/\\c in {\n",
       "}{\n",
       "\\draw[thin,opacity=0.5] (\\a) -- (\\b) -- (\\c) -- cycle;}\n",
       "\n",
       "% Label nodes (only for creation process)\n",
       "% \\foreach \\a in }{\n",
       "%     \\node[blue!80!black, font=\\tiny] at (\\a) {\\a};\n",
       "% }\n",
       "\\end{tikzpicture}\n",
       "\\end{document}\n" >>

\* C5: for the empty mesh get_tex_str builds, and then writes, the complete
\* document shell with an empty coordinate block and an empty triangle list;
\* for every mesh the fixed lines are those of the shell, in the same places
C5_EmptyShell ==
    /\ Formatted =>
          /\ Len(write_lines) = Len(EmptyShell)
          /\ \A i \in 1..Len(EmptyShell) :
                i \notin {CoordEntry, ListEntry, AllEntry} => write_lines[i] = EmptyShell[i]
    /\ (Formatted /\ IsEmptyMesh) => write_lines = EmptyShell /\ fault = "none"
    /\ (pc = "close" /\ IsEmptyMesh) =>
          fs[out_file].text = Concat(EmptyShell, Len(EmptyShell))

C5_Witness == pc = "close" /\ IsEmptyMesh /\ cur = "A"

---------------------------------------------------------------------------
(* C6 *)

\* C6: a completed call of get_tex_str leaves on disk the same bytes as the
\* first completed call on the same point and triangle arrays did, whatever
\* calls came between and whatever cells and print_to_terminal were
C6_Idempotent ==
    (pc = "idle" /\ last.tag \in DOMAIN ref) => last.doc = ref[last.tag]

C6_Witness ==
    /\ pc = "idle"
    /\ ncalls = 2
    /\ last.tag = "A"
    /\ DOMAIN ref = {"A"}
    /\ stdout # ""

---------------------------------------------------------------------------
(* The order of steps in a run of main *)

\* How often event e is in the log
Count(e) == Cardinality({i \in 1..Len(log) : log[i] = e})

\* The place of the first e in the log, 0 when there is none
Pos(e) ==
    IF Count(e) = 0 THEN 0
    ELSE CHOOSE i \in 1..Len(log) : log[i] = e /\ \A j \in 1..(i - 1) : log[j] # e

\* e is in the log, and d is in the log before it
Precedes(d, e) == Pos(d) # 0 /\ Pos(d) < Pos(e)

Ended == pc \in {"done", "crashed"}

\* The steps of main come in the order generate, read, format, confirm
StepOrder ==
    /\ (Count("generate>") > 0 /\ Count("read_mesh>") > 0) => Precedes("generate<", "read_mesh>")
    /\ Count("get_tex_str>") > 0 => Precedes("read_mesh<", "get_tex_str>")
    /\ Count("confirm") > 0 => Precedes("get_tex_str<", "confirm")

---------------------------------------------------------------------------
(* C7 *)

\* C7 as claimed: the generator is invoked iff no filename was given, it
\* completes before the reader starts, and read_mesh is invoked exactly once in
\* every run, before get_tex_str, which precedes the confirmation
C7_AsClaimed ==
    /\ Ended => (Count("generate>") > 0 <=> args.filename = None)
    /\ Ended => Count("read_mesh>") = 1
    /\ StepOrder

\* C7 amended (runs in which parse_args has returned, as every run of this
\* specification has): the generator is invoked iff the filename is omitted or empty;
\* when it returns it has returned before the reader starts; read_mesh is
\* invoked at most once, and exactly once in every run in which the generator
\* did not raise; it returns before get_tex_str starts, which returns before
\* the confirmation
C7_Order ==
    /\ Ended => (Count("generate>") > 0 <=> ~Truthy(args.filename))
    /\ Count("generate>") <= 1
    /\ Count("read_mesh>") <= 1
    /\ (Ended /\ fault # "gmsh") => Count("read_mesh>") = 1
    /\ StepOrder

C7_Witness ==
    /\ pc = "done"
    /\ args.filename = Some("")
    /\ log = <<"generate>", "generate<", "read_mesh>", "read_mesh<",
               "get_tex_str>", "open", "get_tex_str<", "confirm">>

---------------------------------------------------------------------------
(* C8 *)

ConfirmationText == "TeX file written to "

\* The step a fault belongs to is the last one the log shows entered
FailedAt ==
    CASE fault = "gmsh" -> log[Len(log)] = "generate>"
      [] fault \in {"FileNotFoundError", "ReadError", "KeyError"} -> log[Len(log)] = "read_mesh>"
      [] fault \in {"OSError", "BrokenPipeError"} -> log[Len(log)] \in {"get_tex_str>", "open"}
      [] OTHER -> FALSE

\* C8: a failing step ends the run there: nothing is caught or retried, no
\* later step runs, and the confirmation is printed only when every step
\* has succeeded
C8_FailStop ==
    /\ fault # "none" =>
          /\ pc = "crashed"
          /\ ~ENABLED Next
          /\ FailedAt
          /\ Count("confirm") = 0
          /\ ~Contains(stdout, ConfirmationText)
    /\ Contains(stdout, ConfirmationText) =>
          /\ pc = "done"
          /\ fault = "none"
          /\ Count("generate>") = Count("generate<")
          /\ Count("read_mesh<") = 1
          /\ Count("get_tex_str<") = 1
          /\ EndsWith(stdout, ConfirmationText \o out_file \o "\n")
          /\ fs[out_file].text = Concat(write_lines, Len(write_lines))

C8_Witness == fault = "KeyError" /\ pc = "crashed" /\ Count("get_tex_str>") = 0

---------------------------------------------------------------------------
(* C9 *)

\* C9: whenever a call of get_tex_str has ended, by returning or by an
\* exception, the output file handle it opened is closed
C9_HandleClosed ==
    /\ pc \in {"confirm", "done", "crashed", "idle"} => texfile # "open"
    /\ Count("get_tex_str<") > 0 => texfile = "closed"
    /\ fault = "BrokenPipeError" => texfile = "closed"
    /\ (fault = "OSError" /\ Count("open") > 0) => texfile = "closed"

C9_Witness == fault = "BrokenPipeError" /\ texfile = "closed" /\ Count("open") = 1

---------------------------------------------------------------------------
(* C10 *)

\* The path main writes the document to, as the command line decides it
OutputPath ==
    IF Truthy(args.out) THEN args.out[1]
    ELSE (IF Truthy(args.filename) THEN args.filename[1] ELSE "example_mesh") \o ".tex"

BeforeFormatting == fault \in {"gmsh", "FileNotFoundError", "ReadError", "KeyError"}

\* C10 as claimed: the output file is opened only after read_mesh has
\* returned, and when the generator or read_mesh fails the file at the output
\* path is as it was when the run started
C10_AsClaimed ==
    /\ Count("open") > 0 => Precedes("read_mesh<", "open")
    /\ BeforeFormatting => fs[OutputPath] = before[OutputPath]

\* C10 amended: as claimed, unless the output path is the file
\* example_mesh.msh and the generator, which writes that file, was invoked
C10_Frame ==
    /\ Count("open") > 0 => Precedes("read_mesh<", "open")
    /\ (BeforeFormatting /\ ~(Count("generate>") > 0 /\ OutputPath = "example_mesh.msh")) =>
          fs[OutputPath] = before[OutputPath]

C10_Witness ==
    /\ fault = "FileNotFoundError"
    /\ out_file = OutputPath
    /\ before[OutputPath].kind = "text"

====
